---- MODULE Spec2Model ----
(***************************************************************************)
(* Model of the unit-conversion facade ConverterSystem                      *)
(* (src/src/ConverterSystem.js), of the unit dispatch of its earlier        *)
(* revision (src/unnamed/part_000) and of the collaborators it calls        *)
(* (InputValidator, the category converters).                               *)
(*                                                                          *)
(* JavaScript values are tagged records [t, s, n, d]:                       *)
(*   t = "number"    the finite number n/d (a reduced fraction, d > 0)      *)
(*   t = "string"    the string s, a tuple of one-character strings         *)
(*   t = "nan", "infinity", "undefined"    the value of that name           *)
(*   t = "NumberObject", "StringObject", "Object"   a value boxed by the    *)
(*                   built-in function Object                               *)
(* Numbers are exact rationals: IEEE-754 rounding is not modelled.          *)
(***************************************************************************)
EXTENDS Integers, Sequences, FiniteSets, TLC

VARIABLES pc, op, args, result, first

vars == <<pc, op, args, result, first>>

----------------------------------------------------------------------------
(* Rational arithmetic *)

Abs(x) == IF x < 0 THEN -x ELSE x

RECURSIVE Gcd(_, _)
Gcd(a, b) == IF b = 0 THEN a ELSE Gcd(b, a % b)

Rat(n, d) ==
  LET g == Gcd(Abs(n), Abs(d))
      sgn == IF d < 0 THEN -1 ELSE 1
  IN  [n |-> sgn * (n \div g), d |-> sgn * (d \div g)]

\* a * b, cancelling across before multiplying
RatMul(a, b) ==
  LET g1 == Gcd(Abs(a.n), b.d)
      g2 == Gcd(Abs(b.n), a.d)
      h1 == IF g1 = 0 THEN 1 ELSE g1
      h2 == IF g2 = 0 THEN 1 ELSE g2
  IN  Rat((a.n \div h1) * (b.n \div h2), (a.d \div h2) * (b.d \div h1))

\* a / b for b # 0
RatDiv(a, b) == RatMul(a, Rat(b.d, b.n))

RatAdd(a, b) == Rat(a.n * b.d + b.n * a.d, a.d * b.d)

RatLess(a, b) == a.n * b.d < b.n * a.d

RECURSIVE Pow10(_)
Pow10(k) == IF k = 0 THEN 1 ELSE 10 * Pow10(k - 1)

----------------------------------------------------------------------------
(* JavaScript values *)

Num(n, d) == [t |-> "number", s |-> <<>>, n |-> Rat(n, d).n, d |-> Rat(n, d).d]
Str(s) == [t |-> "string", s |-> s, n |-> 0, d |-> 1]
NaN == [t |-> "nan", s |-> <<>>, n |-> 0, d |-> 1]
Infinity == [t |-> "infinity", s |-> <<>>, n |-> 0, d |-> 1]
Undefined == [t |-> "undefined", s |-> <<>>, n |-> 0, d |-> 1]

FromRat(r) == [t |-> "number", s |-> <<>>, n |-> r.n, d |-> r.d]
ToRat(v) == [n |-> v.n, d |-> v.d]

\* String.prototype.toLowerCase on the ASCII letters
UpperChars == <<"A", "B", "C", "D", "E", "F", "G", "H", "I", "J", "K", "L", "M",
                "N", "O", "P", "Q", "R", "S", "T", "U", "V", "W", "X", "Y", "Z">>
LowerChars == <<"a", "b", "c", "d", "e", "f", "g", "h", "i", "j", "k", "l", "m",
                "n", "o", "p", "q", "r", "s", "t", "u", "v", "w", "x", "y", "z">>

lowerChar(c) ==
  IF \E i \in DOMAIN UpperChars : UpperChars[i] = c
    THEN LowerChars[CHOOSE i \in DOMAIN UpperChars : UpperChars[i] = c]
    ELSE c

toLowerCase(s) == [i \in DOMAIN s |-> lowerChar(s[i])]

----------------------------------------------------------------------------
(* Outcomes of a call: a returned value or a thrown error *)

NoRecord == [conversionType |-> Undefined, convertFrom |-> Undefined,
             convertTo |-> Undefined, numberToConvert |-> Undefined,
             convertedNumber |-> Undefined]

Return(v) == [st |-> "return", err |-> "", val |-> v, arr |-> <<>>, rec |-> NoRecord]
ReturnArray(a) == [st |-> "return-array", err |-> "", val |-> Undefined, arr |-> a, rec |-> NoRecord]
ReturnRecord(r) == [st |-> "return-record", err |-> "", val |-> Undefined, arr |-> <<>>, rec |-> r]
Throw(e) == [st |-> "throw", err |-> e, val |-> Undefined, arr |-> <<>>, rec |-> NoRecord]
None == [st |-> "none", err |-> "", val |-> Undefined, arr |-> <<>>, rec |-> NoRecord]

Ok == Return(Undefined)
Threw(o) == o.st = "throw"

ErrString == "Input must be a string"
ErrNumber == "Input must be a number"
ErrArray == "Input must be an array"
ErrPositive == "Number must be positive"
\* the two range messages end in the degree sign and C or F in the source
ErrCelsius == "Temperature must be greater than or equal to -273.15C"
ErrFahrenheit == "Temperature must be greater than or equal to -459.67F"
ErrNotAvailable == "Conversion not available"
ErrNotCallable == "TypeError: conversionMethod is not a function"
ErrNoToFixed == "TypeError: convertedNumber.toFixed is not a function"
ErrToFixedRange == "RangeError: toFixed() digits argument must be between 0 and 100"

----------------------------------------------------------------------------
(* String literals of the source, as character tuples *)

s_meters == <<"m", "e", "t", "e", "r", "s">>
s_m == <<"m">>
s_feet == <<"f", "e", "e", "t">>
s_ft == <<"f", "t">>
s_centimeters == <<"c", "e", "n", "t", "i", "m", "e", "t", "e", "r", "s">>
s_cm == <<"c", "m">>
s_inches == <<"i", "n", "c", "h", "e", "s">>
s_in == <<"i", "n">>
s_kilograms == <<"k", "i", "l", "o", "g", "r", "a", "m", "s">>
s_kg == <<"k", "g">>
s_pounds == <<"p", "o", "u", "n", "d", "s">>
s_lb == <<"l", "b">>
s_grams == <<"g", "r", "a", "m", "s">>
s_g == <<"g">>
s_ounces == <<"o", "u", "n", "c", "e", "s">>
s_oz == <<"o", "z">>
s_celsius == <<"c", "e", "l", "s", "i", "u", "s">>
s_fahrenheit == <<"f", "a", "h", "r", "e", "n", "h", "e", "i", "t">>
s_kelvin == <<"k", "e", "l", "v", "i", "n">>
s_liters == <<"l", "i", "t", "e", "r", "s">>
s_gallons == <<"g", "a", "l", "l", "o", "n", "s">>
s_pints == <<"p", "i", "n", "t", "s">>
s_deciliters == <<"d", "e", "c", "i", "l", "i", "t", "e", "r", "s">>
s_cups == <<"c", "u", "p", "s">>
s_temperature == <<"t", "e", "m", "p", "e", "r", "a", "t", "u", "r", "e">>
s_length == <<"l", "e", "n", "g", "t", "h">>
s_speed == <<"s", "p", "e", "e", "d">>
s_weight == <<"w", "e", "i", "g", "h", "t">>
s_volume == <<"v", "o", "l", "u", "m", "e">>
s_constructor == <<"c", "o", "n", "s", "t", "r", "u", "c", "t", "o", "r">>
s_proto == <<"_", "_", "p", "r", "o", "t", "o", "_", "_">>
s_toString == <<"t", "o", "S", "t", "r", "i", "n", "g">>
s_valueOf == <<"v", "a", "l", "u", "e", "O", "f">>
s_hasOwnProperty == <<"h", "a", "s", "O", "w", "n", "P", "r", "o", "p", "e", "r", "t", "y">>

\* strings callers pass
U_METERS == <<"M", "E", "T", "E", "R", "S">>
U_M == <<"M">>
U_Feet == <<"F", "e", "e", "t">>
U_FT == <<"F", "T">>
U_Pounds == <<"P", "o", "u", "n", "d", "s">>
U_KG == <<"K", "G">>
U_Celsius == <<"C", "e", "l", "s", "i", "u", "s">>
U_Gallons == <<"G", "a", "l", "l", "o", "n", "s">>
U_Length == <<"L", "e", "n", "g", "t", "h">>
U_WEIGHT == <<"W", "E", "I", "G", "H", "T">>
U_area == <<"a", "r", "e", "a">>
U_Constructor == <<"C", "o", "n", "s", "t", "r", "u", "c", "t", "o", "r">>
U_x == <<"x">>

----------------------------------------------------------------------------
(* InputValidator (src/InputValidator.js is not among the sources; its      *)
(* contract is the one exercised by src/tests/InputValidator.test.js)       *)

validateInputTypeString(x) == IF x.t = "string" THEN Ok ELSE Throw(ErrString)

validateInputTypeNumber(x) == IF x.t = "number" THEN Ok ELSE Throw(ErrNumber)

validateInputTypeArray(isArray) == IF isArray THEN Ok ELSE Throw(ErrArray)

validatePositiveNumber(x) == IF x.n < 0 THEN Throw(ErrPositive) ELSE Ok

AbsoluteZeroC == Rat(-27315, 100)
AbsoluteZeroF == Rat(-45967, 100)

validateCelsiusRange(x) ==
  IF RatLess(ToRat(x), AbsoluteZeroC) THEN Throw(ErrCelsius) ELSE Ok

validateFahrenheitRange(x) ==
  IF RatLess(ToRat(x), AbsoluteZeroF) THEN Throw(ErrFahrenheit) ELSE Ok

----------------------------------------------------------------------------
(* Pairwise formulas of the category converters.  The converter classes are *)
(* not among the sources: metersToFeet, feetToMeters, kilogramsToPounds and *)
(* the temperature formulas are the documented ones; the other factors are  *)
(* the ones the expected values of the selector tests (part_001) fit, each  *)
(* pair of directions using one factor.                                     *)

FeetPerMeter == Rat(328084, 100000)
CentimetersPerInch == Rat(254, 100)
PoundsPerKilogram == Rat(220462, 100000)
GramsPerOunce == Rat(283495, 10000)
LitersPerGallon == Rat(378541, 100000)
PintsPerLiter == Rat(211338, 100000)
DecilitersPerCup == Rat(236588, 100000)

metersToFeet(x) == FromRat(RatMul(ToRat(x), FeetPerMeter))
feetToMeters(x) == FromRat(RatDiv(ToRat(x), FeetPerMeter))
centimetersToInches(x) == FromRat(RatDiv(ToRat(x), CentimetersPerInch))
inchesToCentimeters(x) == FromRat(RatMul(ToRat(x), CentimetersPerInch))

kilogramsToPounds(x) == FromRat(RatMul(ToRat(x), PoundsPerKilogram))
poundsToKilograms(x) == FromRat(RatDiv(ToRat(x), PoundsPerKilogram))
gramsToOunces(x) == FromRat(RatDiv(ToRat(x), GramsPerOunce))
ouncesToGrams(x) == FromRat(RatMul(ToRat(x), GramsPerOunce))

celsiusToFahrenheit(x) ==
  FromRat(RatAdd(RatMul(ToRat(x), Rat(9, 5)), Rat(32, 1)))
fahrenheitToCelsius(x) ==
  FromRat(RatMul(RatAdd(ToRat(x), Rat(-32, 1)), Rat(5, 9)))

litersToGallons(x) == FromRat(RatDiv(ToRat(x), LitersPerGallon))
gallonsToLiters(x) == FromRat(RatMul(ToRat(x), LitersPerGallon))
litersToPints(x) == FromRat(RatMul(ToRat(x), PintsPerLiter))
pintsToLiters(x) == FromRat(RatDiv(ToRat(x), PintsPerLiter))
decilitersToCups(x) == FromRat(RatDiv(ToRat(x), DecilitersPerCup))
cupsToDeciliters(x) == FromRat(RatMul(ToRat(x), DecilitersPerCup))

----------------------------------------------------------------------------
(* Unit dispatch of length and weight (part_000).  The operands are the     *)
(* JavaScript strings themselves, i.e. the s field of a string value.       *)

\* convertFromMeters with the feet formula as the default branch
convertFromMeters_Default(convertTo, numberToConvert) ==
  Return(metersToFeet(numberToConvert))

convertFromMeters(convertTo, numberToConvert) ==
  LET u == toLowerCase(convertTo) IN
  IF u \in {s_feet, s_ft} THEN Return(metersToFeet(numberToConvert))
  ELSE Throw(ErrNotAvailable)

\* convertFromFeet with no direction implemented
convertFromFeet_NoReverse(convertTo, numberToConvert) ==
  Throw(ErrNotAvailable)

\* convertFromFeet calling the formula of another handler
convertFromFeet_WrongFormula(convertTo, numberToConvert) ==
  LET u == toLowerCase(convertTo) IN
  IF u \in {s_meters, s_m} THEN Return(inchesToCentimeters(numberToConvert))
  ELSE Throw(ErrNotAvailable)

convertFromFeet(convertTo, numberToConvert) ==
  LET u == toLowerCase(convertTo) IN
  IF u \in {s_meters, s_m} THEN Return(feetToMeters(numberToConvert))
  ELSE Throw(ErrNotAvailable)

convertFromCentimeters(convertTo, numberToConvert) ==
  LET u == toLowerCase(convertTo) IN
  IF u \in {s_inches, s_in} THEN Return(centimetersToInches(numberToConvert))
  ELSE Throw(ErrNotAvailable)

convertFromInches(convertTo, numberToConvert) ==
  LET u == toLowerCase(convertTo) IN
  IF u \in {s_centimeters, s_cm} THEN Return(inchesToCentimeters(numberToConvert))
  ELSE Throw(ErrNotAvailable)

convertFromKilograms(convertTo, numberToConvert) ==
  LET u == toLowerCase(convertTo) IN
  IF u \in {s_pounds, s_lb} THEN Return(kilogramsToPounds(numberToConvert))
  ELSE Throw(ErrNotAvailable)

convertFromPounds(convertTo, numberToConvert) ==
  LET u == toLowerCase(convertTo) IN
  IF u \in {s_kilograms, s_kg} THEN Return(poundsToKilograms(numberToConvert))
  ELSE Throw(ErrNotAvailable)

convertFromGrams(convertTo, numberToConvert) ==
  LET u == toLowerCase(convertTo) IN
  IF u \in {s_ounces, s_oz} THEN Return(gramsToOunces(numberToConvert))
  ELSE Throw(ErrNotAvailable)

convertFromOunces(convertTo, numberToConvert) ==
  LET u == toLowerCase(convertTo) IN
  IF u \in {s_grams, s_g} THEN Return(ouncesToGrams(numberToConvert))
  ELSE Throw(ErrNotAvailable)

\* part_000 convertLength: what ConverterSystem.js calls lengthConverter.convert
LengthConverter_convert(convertFrom, convertTo, numberToConvert) ==
  LET u == toLowerCase(convertFrom) IN
  IF u \in {s_meters, s_m} THEN convertFromMeters(convertTo, numberToConvert)
  ELSE IF u \in {s_feet, s_ft} THEN convertFromFeet(convertTo, numberToConvert)
  ELSE IF u \in {s_centimeters, s_cm} THEN convertFromCentimeters(convertTo, numberToConvert)
  ELSE IF u \in {s_inches, s_in} THEN convertFromInches(convertTo, numberToConvert)
  ELSE Throw(ErrNotAvailable)

\* part_000 convertWeight: what ConverterSystem.js calls weightConverter.convert
WeightConverter_convert(convertFrom, convertTo, numberToConvert) ==
  LET u == toLowerCase(convertFrom) IN
  IF u \in {s_kilograms, s_kg} THEN convertFromKilograms(convertTo, numberToConvert)
  ELSE IF u \in {s_pounds, s_lb} THEN convertFromPounds(convertTo, numberToConvert)
  ELSE IF u \in {s_grams, s_g} THEN convertFromGrams(convertTo, numberToConvert)
  ELSE IF u \in {s_ounces, s_oz} THEN convertFromOunces(convertTo, numberToConvert)
  ELSE Throw(ErrNotAvailable)

(* Unit dispatch of temperature, volume and speed.  These converters are    *)
(* not among the sources; the pairs are the ones the selector tests         *)
(* (part_001) exercise, by full unit name, in the two-level shape of the    *)
(* length and weight dispatch.  No unit of SpeedConverter is documented, so *)
(* none of the modelled unit names is a speed unit.                         *)

convertFromCelsius(convertTo, numberToConvert) ==
  LET u == toLowerCase(convertTo) IN
  IF Threw(validateCelsiusRange(numberToConvert)) THEN validateCelsiusRange(numberToConvert)
  ELSE IF u = s_fahrenheit THEN Return(celsiusToFahrenheit(numberToConvert))
  ELSE Throw(ErrNotAvailable)

convertFromFahrenheit(convertTo, numberToConvert) ==
  LET u == toLowerCase(convertTo) IN
  IF Threw(validateFahrenheitRange(numberToConvert)) THEN validateFahrenheitRange(numberToConvert)
  ELSE IF u = s_celsius THEN Return(fahrenheitToCelsius(numberToConvert))
  ELSE Throw(ErrNotAvailable)

TemperatureConverter_convert(convertFrom, convertTo, numberToConvert) ==
  LET u == toLowerCase(convertFrom) IN
  IF u = s_celsius THEN convertFromCelsius(convertTo, numberToConvert)
  ELSE IF u = s_fahrenheit THEN convertFromFahrenheit(convertTo, numberToConvert)
  ELSE Throw(ErrNotAvailable)

convertFromLiters(convertTo, numberToConvert) ==
  LET u == toLowerCase(convertTo) IN
  IF u = s_gallons THEN Return(litersToGallons(numberToConvert))
  ELSE IF u = s_pints THEN Return(litersToPints(numberToConvert))
  ELSE Throw(ErrNotAvailable)

convertFromGallons(convertTo, numberToConvert) ==
  LET u == toLowerCase(convertTo) IN
  IF u = s_liters THEN Return(gallonsToLiters(numberToConvert))
  ELSE Throw(ErrNotAvailable)

convertFromPints(convertTo, numberToConvert) ==
  LET u == toLowerCase(convertTo) IN
  IF u = s_liters THEN Return(pintsToLiters(numberToConvert))
  ELSE Throw(ErrNotAvailable)

convertFromDeciliters(convertTo, numberToConvert) ==
  LET u == toLowerCase(convertTo) IN
  IF u = s_cups THEN Return(decilitersToCups(numberToConvert))
  ELSE Throw(ErrNotAvailable)

convertFromCups(convertTo, numberToConvert) ==
  LET u == toLowerCase(convertTo) IN
  IF u = s_deciliters THEN Return(cupsToDeciliters(numberToConvert))
  ELSE Throw(ErrNotAvailable)

VolumeConverter_convert(convertFrom, convertTo, numberToConvert) ==
  LET u == toLowerCase(convertFrom) IN
  IF u = s_liters THEN convertFromLiters(convertTo, numberToConvert)
  ELSE IF u = s_gallons THEN convertFromGallons(convertTo, numberToConvert)
  ELSE IF u = s_pints THEN convertFromPints(convertTo, numberToConvert)
  ELSE IF u = s_deciliters THEN convertFromDeciliters(convertTo, numberToConvert)
  ELSE IF u = s_cups THEN convertFromCups(convertTo, numberToConvert)
  ELSE Throw(ErrNotAvailable)

SpeedConverter_convert(convertFrom, convertTo, numberToConvert) ==
  Throw(ErrNotAvailable)

----------------------------------------------------------------------------
(* ConverterSystem (src/src/ConverterSystem.js) *)

\* validateInputs without the number validation
validateInputs_NumberUnchecked(convertFrom, convertTo, numberToConvert) ==
  IF Threw(validateInputTypeString(convertFrom)) THEN validateInputTypeString(convertFrom)
  ELSE validateInputTypeString(convertTo)

\* validateInputs validating the number before the units
validateInputs_NumberFirst(convertFrom, convertTo, numberToConvert) ==
  IF Threw(validateInputTypeNumber(numberToConvert)) THEN validateInputTypeNumber(numberToConvert)
  ELSE IF Threw(validateInputTypeString(convertFrom)) THEN validateInputTypeString(convertFrom)
  ELSE validateInputTypeString(convertTo)

\* #validateInputs: the first failing validation throws
validateInputs(convertFrom, convertTo, numberToConvert) ==
  IF Threw(validateInputTypeString(convertFrom)) THEN validateInputTypeString(convertFrom)
  ELSE IF Threw(validateInputTypeString(convertTo)) THEN validateInputTypeString(convertTo)
  ELSE validateInputTypeNumber(numberToConvert)

\* convertTemperature with the positivity gate of the other categories
convertTemperature_Positive(convertFrom, convertTo, numberToConvert) ==
  IF Threw(validateInputs(convertFrom, convertTo, numberToConvert))
    THEN validateInputs(convertFrom, convertTo, numberToConvert)
  ELSE IF Threw(validatePositiveNumber(numberToConvert))
    THEN validatePositiveNumber(numberToConvert)
  ELSE TemperatureConverter_convert(convertFrom.s, convertTo.s, numberToConvert)

convertTemperature(convertFrom, convertTo, numberToConvert) ==
  IF Threw(validateInputs(convertFrom, convertTo, numberToConvert))
    THEN validateInputs(convertFrom, convertTo, numberToConvert)
  ELSE TemperatureConverter_convert(convertFrom.s, convertTo.s, numberToConvert)

convertLength(convertFrom, convertTo, numberToConvert) ==
  IF Threw(validateInputs(convertFrom, convertTo, numberToConvert))
    THEN validateInputs(convertFrom, convertTo, numberToConvert)
  ELSE IF Threw(validatePositiveNumber(numberToConvert))
    THEN validatePositiveNumber(numberToConvert)
  ELSE LengthConverter_convert(convertFrom.s, convertTo.s, numberToConvert)

convertSpeed(convertFrom, convertTo, numberToConvert) ==
  IF Threw(validateInputs(convertFrom, convertTo, numberToConvert))
    THEN validateInputs(convertFrom, convertTo, numberToConvert)
  ELSE IF Threw(validatePositiveNumber(numberToConvert))
    THEN validatePositiveNumber(numberToConvert)
  ELSE SpeedConverter_convert(convertFrom.s, convertTo.s, numberToConvert)

convertWeight(convertFrom, convertTo, numberToConvert) ==
  IF Threw(validateInputs(convertFrom, convertTo, numberToConvert))
    THEN validateInputs(convertFrom, convertTo, numberToConvert)
  ELSE IF Threw(validatePositiveNumber(numberToConvert))
    THEN validatePositiveNumber(numberToConvert)
  ELSE WeightConverter_convert(convertFrom.s, convertTo.s, numberToConvert)

convertVolume(convertFrom, convertTo, numberToConvert) ==
  IF Threw(validateInputs(convertFrom, convertTo, numberToConvert))
    THEN validateInputs(convertFrom, convertTo, numberToConvert)
  ELSE IF Threw(validatePositiveNumber(numberToConvert))
    THEN validatePositiveNumber(numberToConvert)
  ELSE VolumeConverter_convert(convertFrom.s, convertTo.s, numberToConvert)

(* this.#conversionMethods is an object literal: a property read finds its   *)
(* own keys first and then the properties it inherits from Object.prototype. *)
(* A value is named by a tag: a bound method, the built-in function Object,  *)
(* another built-in function, the object Object.prototype, or "undefined".   *)

conversionMethods(key) ==
  IF key = s_temperature THEN "convertTemperature"
  ELSE IF key = s_length THEN "convertLength"
  ELSE IF key = s_speed THEN "convertSpeed"
  ELSE IF key = s_weight THEN "convertWeight"
  ELSE IF key = s_volume THEN "convertVolume"
  ELSE IF key = s_constructor THEN "Object"
  ELSE IF key = s_proto THEN "Object.prototype"
  ELSE IF key \in {s_toString, s_valueOf, s_hasOwnProperty} THEN "builtin"
  ELSE "undefined"

\* #chooseConversionMethod: a thrown outcome, or Ok carrying the tag in err
chooseConversionMethod(conversionType) ==
  LET conversionMethod == conversionMethods(toLowerCase(conversionType.s)) IN
  IF conversionMethod = "undefined" THEN Throw(ErrNotAvailable)
  ELSE [Ok EXCEPT !.err = conversionMethod]

\* Object(value): the value boxed
Box(x) ==
  IF x.t = "number" THEN [x EXCEPT !.t = "NumberObject"]
  ELSE IF x.t = "string" THEN [x EXCEPT !.t = "StringObject"]
  ELSE IF x.t = "nan" THEN [x EXCEPT !.t = "NumberObject:nan"]
  ELSE IF x.t = "infinity" THEN [x EXCEPT !.t = "NumberObject:infinity"]
  ELSE [x EXCEPT !.t = "Object"]

\* conversionMethod(convertFrom, convertTo, numberToConvert)
callMethod(conversionMethod, convertFrom, convertTo, numberToConvert) ==
  CASE conversionMethod = "convertTemperature" ->
         convertTemperature(convertFrom, convertTo, numberToConvert)
    [] conversionMethod = "convertLength" ->
         convertLength(convertFrom, convertTo, numberToConvert)
    [] conversionMethod = "convertSpeed" ->
         convertSpeed(convertFrom, convertTo, numberToConvert)
    [] conversionMethod = "convertWeight" ->
         convertWeight(convertFrom, convertTo, numberToConvert)
    [] conversionMethod = "convertVolume" ->
         convertVolume(convertFrom, convertTo, numberToConvert)
    [] conversionMethod = "Object" -> Return(Box(convertFrom))
    [] OTHER -> Throw(ErrNotCallable)

\* a map that leaves out the elements whose conversion throws
RECURSIVE mapConvert_SkipFailed(_, _, _, _, _)
mapConvert_SkipFailed(conversionMethod, convertFrom, convertTo, numbers, out) ==
  IF numbers = <<>> THEN ReturnArray(out)
  ELSE LET o == callMethod(conversionMethod, convertFrom, convertTo, Head(numbers)) IN
       mapConvert_SkipFailed(conversionMethod, convertFrom, convertTo, Tail(numbers),
                             IF Threw(o) THEN out ELSE Append(out, o.val))

\* numbersToConvert.map(number => conversionMethod(convertFrom, convertTo, number))
RECURSIVE mapConvert(_, _, _, _, _)
mapConvert(conversionMethod, convertFrom, convertTo, numbers, out) ==
  IF numbers = <<>> THEN ReturnArray(out)
  ELSE LET o == callMethod(conversionMethod, convertFrom, convertTo, Head(numbers)) IN
       IF Threw(o) THEN o
       ELSE mapConvert(conversionMethod, convertFrom, convertTo, Tail(numbers),
                       Append(out, o.val))

\* convertMultipleValues validating the units once, before the map
convertMultipleValues_UnitsFirst(conversionType, convertFrom, convertTo, isArray, numbersToConvert) ==
  IF Threw(validateInputTypeString(conversionType)) THEN validateInputTypeString(conversionType)
  ELSE IF Threw(validateInputTypeArray(isArray)) THEN validateInputTypeArray(isArray)
  ELSE IF Threw(validateInputTypeString(convertFrom)) THEN validateInputTypeString(convertFrom)
  ELSE IF Threw(validateInputTypeString(convertTo)) THEN validateInputTypeString(convertTo)
  ELSE IF Threw(chooseConversionMethod(conversionType)) THEN chooseConversionMethod(conversionType)
  ELSE mapConvert(chooseConversionMethod(conversionType).err, convertFrom, convertTo,
                  numbersToConvert, <<>>)

convertMultipleValues(conversionType, convertFrom, convertTo, isArray, numbersToConvert) ==
  IF Threw(validateInputTypeString(conversionType)) THEN validateInputTypeString(conversionType)
  ELSE IF Threw(validateInputTypeArray(isArray)) THEN validateInputTypeArray(isArray)
  ELSE IF Threw(chooseConversionMethod(conversionType)) THEN chooseConversionMethod(conversionType)
  ELSE mapConvert(chooseConversionMethod(conversionType).err, convertFrom, convertTo,
                  numbersToConvert, <<>>)

\* convertWithSummary echoing the normalised conversion type
convertWithSummary_Normalised(conversionType, convertFrom, convertTo, numberToConvert) ==
  IF Threw(validateInputTypeString(conversionType)) THEN validateInputTypeString(conversionType)
  ELSE IF Threw(chooseConversionMethod(conversionType)) THEN chooseConversionMethod(conversionType)
  ELSE LET convertedNumber == callMethod(chooseConversionMethod(conversionType).err,
                                         convertFrom, convertTo, numberToConvert) IN
       IF Threw(convertedNumber) THEN convertedNumber
       ELSE ReturnRecord([conversionType |-> Str(toLowerCase(conversionType.s)),
                          convertFrom |-> convertFrom,
                          convertTo |-> convertTo,
                          numberToConvert |-> numberToConvert,
                          convertedNumber |-> convertedNumber.val])

convertWithSummary(conversionType, convertFrom, convertTo, numberToConvert) ==
  IF Threw(validateInputTypeString(conversionType)) THEN validateInputTypeString(conversionType)
  ELSE IF Threw(chooseConversionMethod(conversionType)) THEN chooseConversionMethod(conversionType)
  ELSE LET convertedNumber == callMethod(chooseConversionMethod(conversionType).err,
                                         convertFrom, convertTo, numberToConvert) IN
       IF Threw(convertedNumber) THEN convertedNumber
       ELSE ReturnRecord([conversionType |-> conversionType,
                          convertFrom |-> convertFrom,
                          convertTo |-> convertTo,
                          numberToConvert |-> numberToConvert,
                          convertedNumber |-> convertedNumber.val])

\* ToIntegerOrInfinity of a finite number: truncation towards zero
Truncate(x) == IF x.n < 0 THEN -((-x.n) \div x.d) ELSE x.n \div x.d

\* parseFloat(x.toFixed(fractionDigits)) for a finite x and 0 <= f <= 100:
\* the n for which n / 10^f is nearest to x, the larger n on a tie, the sign
\* of x put back
roundFixed(x, f) ==
  LET scaled == (2 * Abs(x.n) * Pow10(f) + x.d) \div (2 * x.d)
      sgn == IF x.n < 0 THEN -1 ELSE 1
  IN  Num(sgn * scaled, Pow10(f))

\* parseFloat(convertedNumber.toFixed(decimalPlaces))
toFixedParsed(convertedNumber, decimalPlaces) ==
  IF convertedNumber.t \notin {"number", "NumberObject", "NumberObject:nan",
                               "NumberObject:infinity"}
    THEN Throw(ErrNoToFixed)
  ELSE IF Truncate(decimalPlaces) < 0 \/ Truncate(decimalPlaces) > 100
    THEN Throw(ErrToFixedRange)
  ELSE IF convertedNumber.t = "NumberObject:nan" THEN Return(NaN)
  ELSE IF convertedNumber.t = "NumberObject:infinity" THEN Return(Infinity)
  ELSE Return(roundFixed(convertedNumber, Truncate(decimalPlaces)))

convertAndRoundUp(conversionType, convertFrom, convertTo, numberToConvert, decimalPlaces) ==
  IF Threw(validateInputTypeString(conversionType)) THEN validateInputTypeString(conversionType)
  ELSE IF Threw(validateInputTypeNumber(decimalPlaces)) THEN validateInputTypeNumber(decimalPlaces)
  ELSE IF Threw(chooseConversionMethod(conversionType)) THEN chooseConversionMethod(conversionType)
  ELSE LET convertedNumber == callMethod(chooseConversionMethod(conversionType).err,
                                         convertFrom, convertTo, numberToConvert) IN
       IF Threw(convertedNumber) THEN convertedNumber
       ELSE toFixedParsed(convertedNumber.val, decimalPlaces)

----------------------------------------------------------------------------
(* The arguments callers pass *)

\* longest batch passed to convertMultipleValues
MaxLen == 2

UnitStrings ==
  {s_meters, s_m, s_feet, s_ft, s_centimeters, s_cm, s_inches, s_in,
   s_kilograms, s_kg, s_pounds, s_lb, s_grams, s_g, s_ounces, s_oz,
   s_celsius, s_fahrenheit, s_kelvin,
   s_liters, s_gallons, s_pints, s_deciliters, s_cups,
   U_METERS, U_M, U_Feet, U_FT, U_Pounds, U_KG, U_Celsius, U_Gallons}

UnitInputs == {Str(s) : s \in UnitStrings} \cup {Undefined, Num(7, 1)}

FewUnitInputs ==
  {Str(s) : s \in {s_meters, U_M, s_feet, U_FT, s_inches, s_kg, U_Pounds,
                   s_celsius, s_fahrenheit}} \cup {Num(7, 1)}

CategoryInputs ==
  {Str(s) : s \in {s_temperature, s_length, s_speed, s_weight, s_volume,
                   U_Length, U_WEIGHT, U_area, s_constructor, U_Constructor,
                   s_proto, s_toString, s_valueOf}} \cup {Undefined}

NumberInputs == {Num(n, 1) : n \in {-500, -300, -25, -1, 0, 2, 18}} \cup {Num(5, 2)}

ValueInputs == NumberInputs \cup {NaN, Infinity, Undefined, Str(U_x)}

ElementInputs == {Num(-1, 1), Num(2, 1), Num(18, 1), NaN}

FewValueInputs == {Num(-25, 1), Num(-1, 1), Num(2, 1), Num(18, 1), NaN}

DecimalInputs == {Num(0, 1), Num(2, 1), Num(3, 2), Num(-1, 1), Num(101, 1), NaN, Undefined}

RECURSIVE SeqsUpTo(_, _)
SeqsUpTo(S, k) ==
  IF k = 0 THEN {<<>>}
  ELSE SeqsUpTo(S, k - 1) \cup
       {Append(q, e) : q \in {p \in SeqsUpTo(S, k - 1) : Len(p) = k - 1}, e \in S}

BatchInputs == SeqsUpTo(ElementInputs, MaxLen)

NoArgs == [conversionType |-> Undefined, convertFrom |-> Undefined,
           convertTo |-> Undefined, numberToConvert |-> Undefined,
           isArray |-> FALSE, numbersToConvert |-> <<>>,
           decimalPlaces |-> Undefined]

NoCall == [op |-> "", args |-> NoArgs, result |-> None]

DirectOps == {"convertTemperature", "convertLength", "convertSpeed",
              "convertWeight", "convertVolume"}

----------------------------------------------------------------------------
(* The state is the call in progress: the operation called, its arguments   *)
(* and its outcome; `first` keeps the call whose result was passed on.      *)

Init ==
  /\ pc = "idle"
  /\ op = ""
  /\ args = NoArgs
  /\ result = None
  /\ first = NoCall

Direct(name, f, t, v) ==
  /\ pc' = "done"
  /\ op' = name
  /\ args' = [NoArgs EXCEPT !.convertFrom = f, !.convertTo = t, !.numberToConvert = v]
  /\ UNCHANGED first

ConvertTemperature ==
  /\ pc = "idle"
  /\ \E f \in UnitInputs, t \in UnitInputs, v \in ValueInputs :
       /\ Direct("convertTemperature", f, t, v)
       /\ result' = convertTemperature(f, t, v)

ConvertLength ==
  /\ pc = "idle"
  /\ \E f \in UnitInputs, t \in UnitInputs, v \in ValueInputs :
       /\ Direct("convertLength", f, t, v)
       /\ result' = convertLength(f, t, v)

ConvertSpeed ==
  /\ pc = "idle"
  /\ \E f \in UnitInputs, t \in UnitInputs, v \in ValueInputs :
       /\ Direct("convertSpeed", f, t, v)
       /\ result' = convertSpeed(f, t, v)

ConvertWeight ==
  /\ pc = "idle"
  /\ \E f \in UnitInputs, t \in UnitInputs, v \in ValueInputs :
       /\ Direct("convertWeight", f, t, v)
       /\ result' = convertWeight(f, t, v)

ConvertVolume ==
  /\ pc = "idle"
  /\ \E f \in UnitInputs, t \in UnitInputs, v \in ValueInputs :
       /\ Direct("convertVolume", f, t, v)
       /\ result' = convertVolume(f, t, v)

ConvertMultipleValues ==
  /\ pc = "idle"
  /\ \E c \in CategoryInputs, f \in FewUnitInputs, t \in FewUnitInputs,
        isArr \in BOOLEAN, vs \in BatchInputs :
       /\ isArr \/ vs = <<>>
       /\ pc' = "done"
       /\ op' = "convertMultipleValues"
       /\ args' = [NoArgs EXCEPT !.conversionType = c, !.convertFrom = f, !.convertTo = t,
                                 !.isArray = isArr, !.numbersToConvert = vs]
       /\ result' = convertMultipleValues(c, f, t, isArr, vs)
       /\ UNCHANGED first

ConvertWithSummary ==
  /\ pc = "idle"
  /\ \E c \in CategoryInputs, f \in FewUnitInputs, t \in FewUnitInputs, v \in ValueInputs :
       /\ pc' = "done"
       /\ op' = "convertWithSummary"
       /\ args' = [NoArgs EXCEPT !.conversionType = c, !.convertFrom = f, !.convertTo = t,
                                 !.numberToConvert = v]
       /\ result' = convertWithSummary(c, f, t, v)
       /\ UNCHANGED first

ConvertAndRoundUp ==
  /\ pc = "idle"
  /\ \E c \in CategoryInputs, f \in FewUnitInputs, t \in FewUnitInputs,
        v \in FewValueInputs, dp \in DecimalInputs :
       /\ pc' = "done"
       /\ op' = "convertAndRoundUp"
       /\ args' = [NoArgs EXCEPT !.conversionType = c, !.convertFrom = f, !.convertTo = t,
                                 !.numberToConvert = v, !.decimalPlaces = dp]
       /\ result' = convertAndRoundUp(c, f, t, v, dp)
       /\ UNCHANGED first

\* the caller passes a converted number back through the same category's
\* method with the units exchanged
ConvertBack ==
  /\ pc = "done"
  /\ op \in DirectOps
  /\ result.st = "return"
  /\ pc' = "back"
  /\ first' = [op |-> op, args |-> args, result |-> result]
  /\ op' = op
  /\ args' = [NoArgs EXCEPT !.convertFrom = args.convertTo, !.convertTo = args.convertFrom,
                            !.numberToConvert = result.val]
  /\ result' = callMethod(op, args.convertTo, args.convertFrom, result.val)

\* the call is over; nothing of it is kept
Forget ==
  /\ pc \in {"done", "back"}
  /\ pc' = "idle"
  /\ op' = ""
  /\ args' = NoArgs
  /\ result' = None
  /\ first' = NoCall

Next ==
  \/ ConvertTemperature
  \/ ConvertLength
  \/ ConvertSpeed
  \/ ConvertWeight
  \/ ConvertVolume
  \/ ConvertMultipleValues
  \/ ConvertWithSummary
  \/ ConvertAndRoundUp
  \/ ConvertBack
  \/ Forget

Spec == Init /\ [][Next]_vars

----------------------------------------------------------------------------
(* Vocabulary of the properties *)

Finished == pc \in {"done", "back"}

Called(name) == pc = "done" /\ op = name

IsString(x) == x.t = "string"
IsNumber(x) == x.t = "number"

KnownCategories == {s_temperature, s_length, s_speed, s_weight, s_volume}

KnownCategory(c) == IsString(c) /\ toLowerCase(c.s) \in KnownCategories

\* convert<Category>(from, to, value) for a known category string
ConvertCategory(c, f, t, v) ==
  LET k == toLowerCase(c.s) IN
  CASE k = s_temperature -> convertTemperature(f, t, v)
    [] k = s_length -> convertLength(f, t, v)
    [] k = s_speed -> convertSpeed(f, t, v)
    [] k = s_weight -> convertWeight(f, t, v)
    [] k = s_volume -> convertVolume(f, t, v)

\* the type error a malformed (from, to, value) is to be answered with
ShapeError(f, t, v) ==
  IF ~IsString(f) \/ ~IsString(t) THEN Throw(ErrString) ELSE Throw(ErrNumber)

Malformed(f, t, v) == ~IsString(f) \/ ~IsString(t) \/ ~IsNumber(v)

----------------------------------------------------------------------------
(* C1 *)

----------------------------------------------------------------------------
(* C2 *)

\* C2 as stated: for every category string whose lower-cased form is not one
\* of the five categories, convertMultipleValues (non-empty array),
\* convertWithSummary and convertAndRoundUp fail with "Conversion not
\* available" and return no result.
C2_UnknownCategoryRejected ==
  /\ pc = "done"
  /\ IsString(args.conversionType)
  /\ ~KnownCategory(args.conversionType)
  /\ \/ op = "convertWithSummary"
     \/ op = "convertAndRoundUp" /\ IsNumber(args.decimalPlaces)
     \/ op = "convertMultipleValues" /\ args.isArray /\ args.numbersToConvert # <<>>
  => result = Throw(ErrNotAvailable)

----------------------------------------------------------------------------
(* C3 *)

\* index of the first element whose conversion throws, 0 when none does
FirstFailing(c, f, t, vs) ==
  IF \E i \in DOMAIN vs : Threw(ConvertCategory(c, f, t, vs[i]))
    THEN CHOOSE i \in DOMAIN vs :
           /\ Threw(ConvertCategory(c, f, t, vs[i]))
           /\ \A j \in 1..(i - 1) : ~Threw(ConvertCategory(c, f, t, vs[j]))
    ELSE 0

\* C3: with a known category, convertMultipleValues either returns an array
\* of the length of its input whose i-th element is convert<Category>(from,
\* to, values[i]), or throws the error of the first element whose conversion
\* throws, returning no array at all.
C3_AllOrNothingMap ==
  Called("convertMultipleValues") /\ KnownCategory(args.conversionType) /\ args.isArray
  => LET c == args.conversionType
         f == args.convertFrom
         t == args.convertTo
         vs == args.numbersToConvert
         k == FirstFailing(c, f, t, vs)
     IN  IF k = 0
           THEN /\ result.st = "return-array"
                /\ Len(result.arr) = Len(vs)
                /\ \A i \in DOMAIN vs : result.arr[i] = ConvertCategory(c, f, t, vs[i]).val
           ELSE /\ result = ConvertCategory(c, f, t, vs[k])
                /\ result.arr = <<>>

\* a batch whose first element converts and whose second does not is aborted
C3_Witness ==
  /\ Called("convertMultipleValues")
  /\ KnownCategory(args.conversionType)
  /\ Len(args.numbersToConvert) >= 2
  /\ FirstFailing(args.conversionType, args.convertFrom, args.convertTo,
                  args.numbersToConvert) = 2
  /\ Threw(result)

----------------------------------------------------------------------------
(* C4 *)

----------------------------------------------------------------------------
(* C5 *)

\* C5: convertLength, convertSpeed, convertWeight and convertVolume answer
\* string units and a finite negative value with "Number must be positive"
\* whatever the unit pair, and let the value 0 through; convertTemperature
\* never answers "Number must be positive", and converts a negative Celsius
\* value not below -273.15 to Fahrenheit as x * 9 / 5 + 32.
C5_PositivityGate ==
  Finished /\ op \in DirectOps
  /\ IsString(args.convertFrom) /\ IsString(args.convertTo)
  /\ IsNumber(args.numberToConvert)
  => LET x == args.numberToConvert IN
     /\ op # "convertTemperature" /\ x.n < 0 => result = Throw(ErrPositive)
     /\ op # "convertTemperature" /\ x.n = 0 => result.err # ErrPositive
     /\ op = "convertTemperature" => result.err # ErrPositive
     /\ op = "convertTemperature" /\ x.n < 0 /\ x.n * 100 >= -27315 * x.d
        /\ toLowerCase(args.convertFrom.s) = s_celsius
        /\ toLowerCase(args.convertTo.s) = s_fahrenheit
        => result = Return(Num(9 * x.n + 160 * x.d, 5 * x.d))

\* Celsius -25 is converted to Fahrenheit -13
C5_Witness ==
  /\ Called("convertTemperature")
  /\ args.convertFrom = Str(s_celsius)
  /\ args.convertTo = Str(s_fahrenheit)
  /\ args.numberToConvert = Num(-25, 1)
  /\ result = Return(Num(-13, 1))

----------------------------------------------------------------------------
(* C6 *)

\* the unit a lower-cased name or abbreviation stands for
CanonicalUnit(s) ==
  LET u == toLowerCase(s) IN
  CASE u = s_m -> s_meters
    [] u = s_ft -> s_feet
    [] u = s_cm -> s_centimeters
    [] u = s_in -> s_inches
    [] u = s_kg -> s_kilograms
    [] u = s_lb -> s_pounds
    [] u = s_g -> s_grams
    [] u = s_oz -> s_ounces
    [] OTHER -> u

ImplementedLengthPairs ==
  {<<s_meters, s_feet>>, <<s_feet, s_meters>>,
   <<s_centimeters, s_inches>>, <<s_inches, s_centimeters>>}

ImplementedWeightPairs ==
  {<<s_kilograms, s_pounds>>, <<s_pounds, s_kilograms>>,
   <<s_grams, s_ounces>>, <<s_ounces, s_grams>>}

\* C6: given string units and a non-negative finite value, convertLength and
\* convertWeight return a number exactly for the implemented ordered pairs
\* (units by name or abbreviation), and answer every other pair with
\* "Conversion not available".
C6_ImplementedPairsOnly ==
  Finished /\ op \in {"convertLength", "convertWeight"}
  /\ IsString(args.convertFrom) /\ IsString(args.convertTo)
  /\ IsNumber(args.numberToConvert) /\ args.numberToConvert.n >= 0
  => LET pair == <<CanonicalUnit(args.convertFrom.s), CanonicalUnit(args.convertTo.s)>>
         implemented == IF op = "convertLength" THEN ImplementedLengthPairs
                                                 ELSE ImplementedWeightPairs
     IN  IF pair \in implemented
           THEN result.st = "return" /\ IsNumber(result.val)
           ELSE result = Throw(ErrNotAvailable)

\* meters to inches, both recognised, is not available
C6_Witness ==
  /\ Called("convertLength")
  /\ args.convertFrom = Str(s_meters)
  /\ args.convertTo = Str(s_inches)
  /\ args.numberToConvert = Num(2, 1)
  /\ result = Throw(ErrNotAvailable)

----------------------------------------------------------------------------
(* C7 *)

\* two strings that differ in letter case only
SameSpelling(a, b) == IsString(a) /\ IsString(b) /\ toLowerCase(a.s) = toLowerCase(b.s)

\* two unit strings that differ in letter case or by abbreviation only
SameUnit(a, b) == IsString(a) /\ IsString(b) /\ CanonicalUnit(a.s) = CanonicalUnit(b.s)

\* the number or error of an outcome, without the arguments a summary echoes
NumberOrError(o) == [st |-> o.st, err |-> o.err, val |-> o.val, arr |-> o.arr,
                     convertedNumber |-> o.rec.convertedNumber]

\* the outcome of the operation `name` on the arguments a
Outcome(name, a) ==
  CASE name \in DirectOps ->
         callMethod(name, a.convertFrom, a.convertTo, a.numberToConvert)
    [] name = "convertMultipleValues" ->
         convertMultipleValues(a.conversionType, a.convertFrom, a.convertTo,
                               a.isArray, a.numbersToConvert)
    [] name = "convertWithSummary" ->
         convertWithSummary(a.conversionType, a.convertFrom, a.convertTo,
                            a.numberToConvert)
    [] name = "convertAndRoundUp" ->
         convertAndRoundUp(a.conversionType, a.convertFrom, a.convertTo,
                           a.numberToConvert, a.decimalPlaces)

\* C7 as stated: replacing the category, the from-unit or the to-unit of a
\* call by another upper/lower-case spelling, or a unit's name by its
\* abbreviation, leaves the number or the error of the call unchanged.
C7_CaseAndAliasInsensitive ==
  Finished
  => /\ \A c \in CategoryInputs : SameSpelling(c, args.conversionType)
          => NumberOrError(Outcome(op, [args EXCEPT !.conversionType = c]))
               = NumberOrError(result)
     /\ \A f \in UnitInputs : SameUnit(f, args.convertFrom)
          => NumberOrError(Outcome(op, [args EXCEPT !.convertFrom = f]))
               = NumberOrError(result)
     /\ \A t \in UnitInputs : SameUnit(t, args.convertTo)
          => NumberOrError(Outcome(op, [args EXCEPT !.convertTo = t]))
               = NumberOrError(result)

----------------------------------------------------------------------------
(* C8 *)

\* C8: with a known category, convertWithSummary returns a record holding its
\* four arguments as passed and, as convertedNumber, the number
\* convert<Category>(from, to, value) returns; when convert<Category> throws,
\* it throws the same error and returns no record.
C8_SummaryKeepsSemantics ==
  Called("convertWithSummary") /\ KnownCategory(args.conversionType)
  => LET r == ConvertCategory(args.conversionType, args.convertFrom, args.convertTo,
                              args.numberToConvert)
     IN  IF Threw(r)
           THEN result = r
           ELSE result = ReturnRecord([conversionType |-> args.conversionType,
                                       convertFrom |-> args.convertFrom,
                                       convertTo |-> args.convertTo,
                                       numberToConvert |-> args.numberToConvert,
                                       convertedNumber |-> r.val])

\* a summary of "WEIGHT", kg to "Pounds" echoes the spellings passed
C8_Witness ==
  /\ Called("convertWithSummary")
  /\ args.conversionType = Str(U_WEIGHT)
  /\ args.convertTo = Str(U_Pounds)
  /\ result.st = "return-record"
  /\ result.rec.conversionType = Str(U_WEIGHT)
  /\ result.rec.convertTo = Str(U_Pounds)
  /\ IsNumber(result.rec.convertedNumber)

----------------------------------------------------------------------------
(* C9 *)

\* C9 as stated: with a known category, a supported pair, a valid value and
\* any finite decimalPlaces, convertAndRoundUp returns a number and raises no
\* error; a decimalPlaces that is not a finite number is answered with
\* "Input must be a number".
C9_RoundUpReturnsNumber ==
  Called("convertAndRoundUp") /\ KnownCategory(args.conversionType)
  => /\ IsNumber(args.decimalPlaces)
        /\ ~Threw(ConvertCategory(args.conversionType, args.convertFrom,
                                  args.convertTo, args.numberToConvert))
        => result.st = "return" /\ IsNumber(result.val)
     /\ ~IsNumber(args.decimalPlaces) => result = Throw(ErrNumber)

----------------------------------------------------------------------------
(* C10 *)

----------------------------------------------------------------------------
(* C11 *)

\* the unit dispatch of length or weight returns a number for (from, to)
Supported(name, f, t) ==
  IF name = "convertLength"
    THEN LengthConverter_convert(f, t, Num(1, 1)).st = "return"
    ELSE WeightConverter_convert(f, t, Num(1, 1)).st = "return"

\* the unit dispatch of length or weight rejects (from, to)
NotAvailable(name, f, t) ==
  IF name = "convertLength"
    THEN LengthConverter_convert(f, t, Num(1, 1)) = Throw(ErrNotAvailable)
    ELSE WeightConverter_convert(f, t, Num(1, 1)) = Throw(ErrNotAvailable)

----------------------------------------------------------------------------
(* C12 *)

\* C12: with a known category and an empty array, convertMultipleValues
\* returns an empty array and raises no error, whatever fromUnit and toUnit
\* are (non-strings, unrecognised and unsupported pairs included); with a
\* known category, "Input must be a string" and "Conversion not available"
\* are raised only for an array of at least one element.
C12_EmptyBatchUnvalidated ==
  Called("convertMultipleValues") /\ KnownCategory(args.conversionType) /\ args.isArray
  => /\ args.numbersToConvert = <<>> => result = ReturnArray(<<>>)
     /\ result.err \in {ErrString, ErrNotAvailable} => args.numbersToConvert # <<>>

\* an empty batch with a non-string fromUnit and a toUnit that is no weight
\* unit returns the empty array
C12_Witness ==
  /\ Called("convertMultipleValues")
  /\ args.conversionType = Str(U_WEIGHT)
  /\ ~IsString(args.convertFrom)
  /\ args.convertTo = Str(s_celsius)
  /\ args.isArray
  /\ args.numbersToConvert = <<>>
  /\ result = ReturnArray(<<>>)

====
